---- MODULE Spec2Model ----
(***************************************************************************)
(* Model of NKT_Tide_Predictor_with_graph_v2.0.py, a Streamlit script.     *)
(*                                                                         *)
(* Streamlit re-executes the whole script, top to bottom, after every      *)
(* user interaction.  One action of the model is one interaction followed  *)
(* by the complete script run it triggers.                                 *)
(*                                                                         *)
(* Numbers: the script computes in binary floating point.  The model uses  *)
(* exact decimal fixed point, one unit = 0.001 m ("milli"); the            *)
(* representation error of binary floats (a few ulp) is not modelled.      *)
(* Instants: one unit = one sampling slot; a day has SlotsPerDay slots.    *)
(***************************************************************************)
EXTENDS Integers, Sequences, FiniteSets, TLC

VARIABLES
    uploaded_file,   \* <<>> (no file) or <<lines>>: the uploaded CSV, a sequence of lines
    df,              \* the data frame with its timestamp column (<<>> when not built)
    selected_date,   \* <<>> (None) or <<d>>: value of the date selectbox
    selected_time,   \* <<>> (None) or <<s>>: value of the hour selectbox
    time_range,      \* <<>> or <<start, end>>: value of the range slider
    elev,            \* <<barra_sand, cpt_ns_01, cpt_ns_02>>: the three number inputs
    row,             \* <<>> or <<r>>: the row looked up at the selected timestamp
    pred_df,         \* <<>> or <<t>>: the table of prediction values shown
    results,         \* the draft table shown (one entry per point; <<>> when not shown)
    charts,          \* the draft series shown (one series per point; <<>> when not shown)
    error,           \* "none", or the exception that ended the last script run
    stopped_at       \* the line of the script at which the last run ended

vars == <<uploaded_file, df, selected_date, selected_time, time_range, elev,
          row, pred_df, results, charts, error, stopped_at>>

----------------------------------------------------------------------------
(* Bounds of the model *)

MaxRows == 2        \* data rows in an uploaded file
MaxTime == 2        \* instants 0 .. MaxTime appear in files
SlotsPerDay == 2    \* sampling slots per calendar day

Instants == 0 .. MaxTime

----------------------------------------------------------------------------
(* Text of a CSV file *)

\* a datetime field: text in some format, denoting an instant
DateText(f, t) == [fmt |-> f, t |-> t]
\* a numeric field: text that is a decimal number (of value milli/1000) or is not
NumText(m) == [num |-> TRUE, milli |-> m]
Abc == [num |-> FALSE, milli |-> 0]

Line(d, a, m, s, v, c) ==
    [datetime |-> d, water_level_astro |-> a, water_level_meteo |-> m, surge |-> s,
     depth_averaged_velocity |-> v, current_direction |-> c]

\* a line of the two-line preamble
Preamble == Line(DateText("preamble", 0), Abc, Abc, Abc, Abc, Abc)

column_names == {"water_level_astro", "water_level_meteo", "surge",
                 "depth_averaged_velocity", "current_direction"}

----------------------------------------------------------------------------
(* Sequence helpers *)

RECURSIVE SelectSeq2(_, _)
\* the subsequence of s of the elements whose index is in keep, in order
SelectSeq2(s, keep) ==
    IF s = <<>> THEN <<>>
    ELSE LET n == Len(s)
             rest == SelectSeq2(SubSeq(s, 1, n - 1), keep)
         IN IF n \in keep THEN Append(rest, s[n]) ELSE rest

RECURSIVE unique(_)
\* pandas unique(): the distinct values in order of first appearance
unique(s) ==
    IF s = <<>> THEN <<>>
    ELSE LET n == Len(s)
             rest == unique(SubSeq(s, 1, n - 1))
         IN IF \E i \in 1 .. Len(rest) : rest[i] = s[n] THEN rest ELSE Append(rest, s[n])

\* the function f on 1 .. n as an explicit tuple
Tuple(f) == f \o <<>>

Range(s) == {s[i] : i \in DOMAIN s}
Min(S) == CHOOSE x \in S : \A y \in S : x <= y
Max(S) == CHOOSE x \in S : \A y \in S : x >= y

----------------------------------------------------------------------------
(* Sidebar: reading the file (lines 26-34) *)

\* read_csv with skiprows=3: the first data line is lost
read_csv_skiprows_3(file) ==
    LET body == SubSeq(file, 4, Len(file))
        dtype(c) == IF \A i \in 1 .. Len(body) : body[i][c].num THEN "float64" ELSE "object"
        cell(i, c) == [dtype |-> dtype(c), text |-> body[i][c]]
    IN Tuple([i \in 1 .. Len(body) |->
           [datetime |-> body[i].datetime,
            water_level_astro |-> cell(i, "water_level_astro"),
            water_level_meteo |-> cell(i, "water_level_meteo"),
            surge |-> cell(i, "surge"),
            depth_averaged_velocity |-> cell(i, "depth_averaged_velocity"),
            current_direction |-> cell(i, "current_direction")]])

\* pd.read_csv(skiprows=2, header=None, names=column_names): the first two
\* lines are dropped; a column all of whose fields are numbers is a float64
\* column, any other column is an object column that holds the fields' text.
\* With names given, a file without data rows gives an empty frame.
read_csv(file) ==
    LET body == SubSeq(file, 3, Len(file))
        dtype(c) == IF \A i \in 1 .. Len(body) : body[i][c].num THEN "float64" ELSE "object"
        cell(i, c) == [dtype |-> dtype(c), text |-> body[i][c]]
    IN Tuple([i \in 1 .. Len(body) |->
           [datetime |-> body[i].datetime,
            water_level_astro |-> cell(i, "water_level_astro"),
            water_level_meteo |-> cell(i, "water_level_meteo"),
            surge |-> cell(i, "surge"),
            depth_averaged_velocity |-> cell(i, "depth_averaged_velocity"),
            current_direction |-> cell(i, "current_direction")]])

\* the format string of line 34
format == "%d-%b-%Y %H:%M:%S"

\* pd.to_datetime(df['datetime'], format=...) raises ValueError when some
\* field does not match the format
to_datetime_raises(frame) == \E i \in 1 .. Len(frame) : frame[i].datetime.fmt # format

\* df after line 34: the frame with its timestamp column
to_datetime(frame) ==
    Tuple([i \in 1 .. Len(frame) |->
        [timestamp |-> frame[i].datetime.t,
         water_level_astro |-> frame[i].water_level_astro,
         water_level_meteo |-> frame[i].water_level_meteo,
         surge |-> frame[i].surge,
         depth_averaged_velocity |-> frame[i].depth_averaged_velocity,
         current_direction |-> frame[i].current_direction]])

\* value of a float64 cell, in milli
val(cell) == cell.text.milli

----------------------------------------------------------------------------
(* Sidebar: the widgets (lines 37-70) *)

\* .dt.date and .dt.time of a timestamp, and datetime.combine (line 74)
date(t) == t \div SlotsPerDay
time(t) == t % SlotsPerDay
combine(d, s) == d * SlotsPerDay + s

timestamps(d) == Tuple([i \in 1 .. Len(d) |-> d[i].timestamp])

\* line 37
unique_dates(d) == unique(Tuple([i \in 1 .. Len(d) |-> date(d[i].timestamp)]))

\* line 39; sel is the selected date, <<>> when None
available_hours(d, sel) ==
    LET on == SelectSeq2(d, {i \in 1 .. Len(d) : sel # <<>> /\ date(d[i].timestamp) = sel[1]})
    IN unique(Tuple([i \in 1 .. Len(on) |-> time(on[i].timestamp)]))

\* a selectbox that keeps the value it holds when its options change
selectbox_keeps_held(options, drawn_with, held) ==
    IF options = <<>> THEN <<>>
    ELSE IF held # <<>> THEN held
    ELSE <<options[1]>>

\* st.selectbox: None without options; the value held by the widget while the
\* options are those it was last drawn with; the first option otherwise
selectbox(options, drawn_with, held) ==
    IF options = <<>> THEN <<>>
    ELSE IF options = drawn_with /\ held # <<>> THEN held
    ELSE <<options[1]>>

\* lines 46-48 (on a frame with at least one row)
start_time(d) == Min(Range(timestamps(d)))
end_time(d) == Max(Range(timestamps(d)))
default_end(d) == Min({start_time(d) + SlotsPerDay, end_time(d)})

\* the arguments of the slider of line 50, <<>> for a frame without rows
slider_args(d) == IF d = <<>> THEN <<>> ELSE <<start_time(d), end_time(d), default_end(d)>>

\* st.slider: the value held by the widget while its arguments are those it
\* was last drawn with; value=(start_time, default_end) otherwise
slider(args, drawn_with, held) ==
    IF args = drawn_with /\ held # <<>> THEN held ELSE <<args[1], args[3]>>

\* the values of the three number inputs of lines 62-64 (milli)
barra_sand == -1400
cpt_ns_01 == -3200
cpt_ns_02 == -1760
default_elev == <<barra_sand, cpt_ns_01, cpt_ns_02>>
names == <<"Barra de Arena", "CPT-NS-01", "CPT-NS-02">>

\* lines 66-70: the points in insertion order; the key holds the name and
\* the elevation
points(e) == Tuple([i \in 1 .. 3 |-> [name |-> names[i], lat |-> e[i]]])

----------------------------------------------------------------------------
(* Main content (lines 73-127) *)

\* a lookup that falls back on the first row of the frame when no row has
\* the timestamp
row_of_fallback(d, ts) ==
    LET hits == SelectSeq2(d, {i \in 1 .. Len(d) : d[i].timestamp = ts})
    IN IF hits # <<>> THEN <<hits[1]>>
       ELSE IF d # <<>> THEN <<d[1]>> ELSE <<>>

\* line 75: df[df['timestamp'] == selected_timestamp].iloc[0]; <<>> stands for
\* the IndexError that iloc[0] raises on a selection without rows
row_of(d, ts) ==
    LET hits == SelectSeq2(d, {i \in 1 .. Len(d) : d[i].timestamp = ts})
    IN IF hits = <<>> THEN <<>> ELSE <<hits[1]>>

\* round(x, 2) and f"{x:.2f}": x in milli, to the nearest multiple of 10; at an
\* exact decimal tie the binary value of the float decides, so both neighbours
\* are possible outcomes (the readings and elevations of the model give no tie)
Round2(x) ==
    LET q == x \div 10
        rem == x % 10
    IN IF rem < 5 THEN {q * 10}
       ELSE IF rem > 5 THEN {(q + 1) * 10}
       ELSE {q * 10, (q + 1) * 10}

\* lines 89-92: a number is shown with two decimals, anything else as it is
format_value(cell) ==
    IF cell.dtype = "float64" THEN {NumText(r) : r \in Round2(val(cell))} ELSE {cell.text}

\* lines 79-94: the possible tables of prediction values for row r
pred_values(r, ts) ==
    {[Hora |-> ts, water_level_astro |-> a, water_level_meteo |-> m, surge |-> s,
      depth_averaged_velocity |-> v, current_direction |-> c] :
        a \in format_value(r.water_level_astro),
        m \in format_value(r.water_level_meteo),
        s \in format_value(r.surge),
        v \in format_value(r.depth_averaged_velocity),
        c \in format_value(r.current_direction)}

\* the arithmetic of lines 105-108 and 124-127 raises TypeError on text
arithmetic_raises(r) ==
    \/ r.water_level_astro.dtype # "float64"
    \/ r.water_level_meteo.dtype # "float64"
    \/ r.surge.dtype # "float64"

\* a draft table whose "meteo + surge" column leaves the surge out
results_entry_no_surge(r, p) ==
    LET astro == val(r.water_level_astro)
        meteo == val(r.water_level_meteo)
        surge == val(r.surge)
        lat == p.lat
    IN {[Punto |-> p.name, tide_astro |-> a, tide_astro_surge |-> b,
         tide_meteo |-> c, tide_meteo_surge |-> d] :
            a \in Round2(astro - lat),
            b \in Round2(astro + surge - lat),
            c \in Round2(meteo - lat),
            d \in Round2(meteo - lat)}

\* lines 100-109: the possible entries of the draft table for row r and point p
\* (str(round(x, 2)) is the text of the rounded number; it is kept as a number)
results_entry(r, p) ==
    LET astro == val(r.water_level_astro)
        meteo == val(r.water_level_meteo)
        surge == val(r.surge)
        lat == p.lat
    IN {[Punto |-> p.name, tide_astro |-> a, tide_astro_surge |-> b,
         tide_meteo |-> c, tide_meteo_surge |-> d] :
            a \in Round2(astro - lat),
            b \in Round2(astro + surge - lat),
            c \in Round2(meteo - lat),
            d \in Round2(meteo + surge - lat)}

\* lines 98-111: the possible draft tables
results_of(r, pts) ==
    {<<e1, e2, e3>> : e1 \in results_entry(r, pts[1]),
                      e2 \in results_entry(r, pts[2]),
                      e3 \in results_entry(r, pts[3])}

\* a range selection that excludes the end of the range
df_range_exclusive_end(d, tr) ==
    SelectSeq2(d, {i \in 1 .. Len(d) : d[i].timestamp >= tr[1] /\ d[i].timestamp < tr[2]})

\* a range selection with | in place of &
df_range_either_bound(d, tr) ==
    SelectSeq2(d, {i \in 1 .. Len(d) : d[i].timestamp >= tr[1] \/ d[i].timestamp <= tr[2]})

\* line 118
df_range(d, tr) ==
    SelectSeq2(d, {i \in 1 .. Len(d) : d[i].timestamp >= tr[1] /\ d[i].timestamp <= tr[2]})

\* draft columns that add the elevation in place of subtracting it
df_point_plus_lat(dr, lat) ==
    Tuple([i \in 1 .. Len(dr) |->
        [timestamp |-> dr[i].timestamp,
         astro |-> val(dr[i].water_level_astro) + lat,
         astro_surge |-> val(dr[i].water_level_astro) + val(dr[i].surge) + lat,
         meteo |-> val(dr[i].water_level_meteo) + lat,
         meteo_surge |-> val(dr[i].water_level_meteo) + val(dr[i].surge) + lat]])

\* lines 123-127: the four draft columns added to a copy of df_range
df_point(dr, lat) ==
    Tuple([i \in 1 .. Len(dr) |->
        [timestamp |-> dr[i].timestamp,
         astro |-> val(dr[i].water_level_astro) - lat,
         astro_surge |-> val(dr[i].water_level_astro) + val(dr[i].surge) - lat,
         meteo |-> val(dr[i].water_level_meteo) - lat,
         meteo_surge |-> val(dr[i].water_level_meteo) + val(dr[i].surge) - lat]])

\* lines 120-127: one series per point
charts_of(d, tr, pts) ==
    LET dr == df_range(d, tr)
    IN <<df_point(dr, pts[1].lat), df_point(dr, pts[2].lat), df_point(dr, pts[3].lat)>>

\* the script stops at line l with exception e: nothing of the main content
\* is shown
Raise(e, l) ==
    /\ error' = e
    /\ stopped_at' = l
    /\ row' = <<>> /\ pred_df' = <<>> /\ results' = <<>> /\ charts' = <<>>

\* lines 73-127 for frame d, selected date sd and hour st, range tr and
\* elevations e
MainContent(d, sd, st, tr, e) ==
    IF sd = <<>> \/ st = <<>>
    THEN Raise("TypeError", 74)                    \* datetime.combine(None, None)
    ELSE \E selected_timestamp \in {combine(sd[1], st[1])} :
         \E r \in {row_of(d, selected_timestamp)} :
            IF r = <<>>
            THEN Raise("IndexError", 75)
            ELSE /\ row' = r
                 /\ \E t \in pred_values(r[1], selected_timestamp) : pred_df' = <<t>>
                 /\ IF arithmetic_raises(r[1])
                    THEN /\ error' = "TypeError" /\ stopped_at' = 105
                         /\ results' = <<>> /\ charts' = <<>>
                    ELSE /\ \E t \in results_of(r[1], points(e)) : results' = t
                         /\ charts' = charts_of(d, tr, points(e))
                         /\ error' = "none" /\ stopped_at' = 154

----------------------------------------------------------------------------
(* One run of the script (lines 12-157) *)

\* Streamlit keeps the value of a widget from one run to the next as long as
\* the widget is drawn with the same arguments, and forgets the value of a
\* widget that a run did not draw.  held is the value each widget holds when
\* the run starts (the user's change included); the arguments the widgets
\* were last drawn with are those of the previous run (the unprimed df).
Script(file, held) ==
    \E frame \in {read_csv(file)} :
    /\ uploaded_file' = <<file>>
    /\ IF to_datetime_raises(frame)
       THEN /\ df' = <<>>
            /\ selected_date' = <<>> /\ selected_time' = <<>> /\ time_range' = <<>>
            /\ elev' = default_elev
            /\ Raise("ValueError", 34)
       ELSE \E d \in {to_datetime(frame)} :
            \E sd \in {selectbox(unique_dates(d), unique_dates(df), held.date)} :
            \E st \in {selectbox(available_hours(d, sd),
                                 available_hours(df, selected_date), held.time)} :
               /\ df' = d
               /\ selected_date' = sd
               /\ selected_time' = st
               /\ IF d = <<>>
                  \* min() and max() of no timestamps are NaT, which st.slider
                  \* does not take as a value: the slider raises, and the
                  \* number inputs below it are not drawn
                  THEN /\ time_range' = <<>>
                       /\ elev' = default_elev
                       /\ Raise("StreamlitAPIException", 50)
                  ELSE \E tr \in {slider(slider_args(d), slider_args(df), held.range)} :
                          /\ time_range' = tr
                          /\ elev' = held.elev
                          /\ MainContent(d, sd, st, tr, held.elev)

\* the widget values held before a run
holds == [date |-> selected_date, time |-> selected_time, range |-> time_range, elev |-> elev]

----------------------------------------------------------------------------
(* Inputs *)

\* readings of a data line, in milli: the scenario 2.00, 2.10, 0.10, 1.0, 90
\* and one with three decimals
ReadingA == <<NumText(2000), NumText(2100), NumText(100), NumText(1000), NumText(90000)>>
ReadingB == <<NumText(2004), NumText(2107), NumText(4), NumText(500), NumText(180000)>>
\* readings with a field that is no number
ReadingAstroAbc == <<Abc, NumText(2100), NumText(100), NumText(1000), NumText(90000)>>
ReadingVelocityAbc == <<NumText(2000), NumText(2100), NumText(100), Abc, NumText(90000)>>

DataLine(d, r) == Line(d, r[1], r[2], r[3], r[4], r[5])

\* well-formed data lines
DataLines == {DataLine(DateText(format, t), r) : t \in Instants, r \in {ReadingA, ReadingB}}

\* the data lines of the files uploaded in a session: the readings alternate
\* from one instant to the next
Reading(t) == IF t % 2 = 0 THEN ReadingA ELSE ReadingB
SessionLines == {DataLine(DateText(format, t), Reading(t)) : t \in Instants}

\* data lines of which some are malformed: a datetime in another format
\* (2024-01-05 13:00:00), or a reading that is no number
MalformedLines ==
    {DataLine(DateText(f, 0), r) :
        f \in {format, "%Y-%m-%d %H:%M:%S"},
        r \in {ReadingA, ReadingAstroAbc, ReadingVelocityAbc}}

SeqsUpTo(S, n) == UNION {[1 .. k -> S] : k \in 0 .. n}

\* files: the two-line preamble, then up to MaxRows data lines
Files(lines) == {<<Preamble, Preamble>> \o body : body \in SeqsUpTo(lines, MaxRows)}

WellFormedFiles == Files(DataLines)
SessionFiles == Files(SessionLines)
MalformedFiles == Files(MalformedLines)

\* elevations with three decimals (-1.396, -3.196, -1.756)
ThreeDecimalElev == <<barra_sand + 4, cpt_ns_01 + 4, cpt_ns_02 + 4>>

\* the values a user gives to the number input of point i: its default, and
\* one step (0.01) above
ElevationInputs(i) == {default_elev[i], default_elev[i] + 10}

----------------------------------------------------------------------------
(* The session: one action per user interaction, each followed by a run *)

Init ==
    /\ uploaded_file = <<>>
    /\ df = <<>>
    /\ selected_date = <<>> /\ selected_time = <<>> /\ time_range = <<>>
    /\ elev = default_elev
    /\ row = <<>> /\ pred_df = <<>> /\ results = <<>> /\ charts = <<>>
    /\ error = "none"
    /\ stopped_at = 157

\* the number inputs were drawn by the last run
points_drawn == uploaded_file # <<>> /\ stopped_at > 64

Upload(f) == Script(f, holds)

\* the user removes the file: the run shows only the hint of line 157
RemoveFile ==
    /\ uploaded_file # <<>>
    /\ uploaded_file' = <<>>
    /\ df' = <<>>
    /\ selected_date' = <<>> /\ selected_time' = <<>> /\ time_range' = <<>>
    /\ elev' = default_elev
    /\ row' = <<>> /\ pred_df' = <<>> /\ results' = <<>> /\ charts' = <<>>
    /\ error' = "none"
    /\ stopped_at' = 157

SelectDate(d) ==
    /\ uploaded_file # <<>>
    /\ d \in Range(unique_dates(df))
    /\ Script(uploaded_file[1], [holds EXCEPT !.date = <<d>>])

SelectTime(s) ==
    /\ uploaded_file # <<>>
    /\ s \in Range(available_hours(df, selected_date))
    /\ Script(uploaded_file[1], [holds EXCEPT !.time = <<s>>])

SetRange(a, b) ==
    /\ uploaded_file # <<>>
    /\ time_range # <<>>
    /\ a >= start_time(df) /\ b <= end_time(df) /\ a <= b
    /\ Script(uploaded_file[1], [holds EXCEPT !.range = <<a, b>>])

\* an edit of an elevation that is not followed by a run
EditPoint_no_rerun(i, e) ==
    /\ points_drawn
    /\ elev' = [elev EXCEPT ![i] = e]
    /\ UNCHANGED <<uploaded_file, df, selected_date, selected_time, time_range,
                   row, pred_df, results, charts, error, stopped_at>>

EditPoint(i, e) ==
    /\ points_drawn
    /\ Script(uploaded_file[1], [holds EXCEPT !.elev = [elev EXCEPT ![i] = e]])

Interact ==
    \/ RemoveFile
    \/ \E d \in 0 .. date(MaxTime) : SelectDate(d)
    \/ \E s \in 0 .. SlotsPerDay - 1 : SelectTime(s)
    \/ \E a, b \in Instants : SetRange(a, b)
    \/ \E i \in 1 .. 3 : \E e \in ElevationInputs(i) : EditPoint(i, e)

Next ==
    \/ \E f \in SessionFiles : Upload(f)
    \/ Interact

Spec == Init /\ [][Next]_vars

\* the same session, fed files with malformed lines
NextMalformed ==
    \/ \E f \in MalformedFiles : Upload(f)
    \/ Interact

SpecMalformed == Init /\ [][NextMalformed]_vars

----------------------------------------------------------------------------
(* The operations of the main content, applied to arbitrary inputs: any     *)
(* well-formed file, any selected date and hour, any range (also one that   *)
(* is inverted or lies outside the series)                                  *)

CoreInit ==
    /\ \E f \in WellFormedFiles :
          /\ uploaded_file = <<f>>
          /\ df = to_datetime(read_csv(f))
    /\ \E d \in 0 .. date(MaxTime) : selected_date = <<d>>
    /\ \E s \in 0 .. SlotsPerDay - 1 : selected_time = <<s>>
    /\ \E a, b \in -1 .. MaxTime : time_range = <<a, b>>
    /\ elev \in {default_elev, ThreeDecimalElev}
    /\ row = <<>> /\ pred_df = <<>> /\ results = <<>> /\ charts = <<>>
    /\ error = "none"
    /\ stopped_at = 73

\* lines 74-95
Lookup ==
    /\ row = <<>> /\ error = "none"
    /\ LET selected_timestamp == combine(selected_date[1], selected_time[1])
           r == row_of(df, selected_timestamp)
       IN IF r = <<>>
          THEN error' = "IndexError" /\ stopped_at' = 75 /\ UNCHANGED <<row, pred_df>>
          ELSE /\ row' = r
               /\ \E t \in pred_values(r[1], selected_timestamp) : pred_df' = <<t>>
               /\ UNCHANGED <<error, stopped_at>>
    /\ UNCHANGED <<uploaded_file, df, selected_date, selected_time, time_range, elev,
                   results, charts>>

\* lines 98-111
DraftTable ==
    /\ row # <<>> /\ results = <<>>
    /\ \E t \in results_of(row[1], points(elev)) : results' = t
    /\ UNCHANGED <<uploaded_file, df, selected_date, selected_time, time_range, elev,
                   row, pred_df, charts, error, stopped_at>>

\* lines 118-127
DraftSeries ==
    /\ charts = <<>>
    /\ charts' = charts_of(df, time_range, points(elev))
    /\ UNCHANGED <<uploaded_file, df, selected_date, selected_time, time_range, elev,
                   row, pred_df, results, error, stopped_at>>

CoreNext == Lookup \/ DraftTable \/ DraftSeries

CoreSpec == CoreInit /\ [][CoreNext]_vars

----------------------------------------------------------------------------
(* Vocabulary of the properties *)

Abs(x) == IF x < 0 THEN -x ELSE x

\* the rows of frame d with start <= timestamp <= end, in the order of d
Between(d, start, end) ==
    LET InRange(r) == start <= r.timestamp /\ r.timestamp <= end
    IN SelectSeq(d, InRange)

\* the four drafts of section 3 of the specification for row r and elevation lat
Drafts(r, lat) ==
    [astro |-> val(r.water_level_astro) - lat,
     astroSurge |-> val(r.water_level_astro) + val(r.surge) - lat,
     meteo |-> val(r.water_level_meteo) - lat,
     meteoSurge |-> val(r.water_level_meteo) + val(r.surge) - lat]

\* v is x rounded to two decimals
Rounded(v, x) == v % 10 = 0 /\ Abs(v - x) <= 5

TwoDecimals(x) == x % 10 = 0

selected_timestamp == combine(selected_date[1], selected_time[1])

\* the data lines of the uploaded file
data_lines == SubSeq(uploaded_file[1], 3, Len(uploaded_file[1]))

\* row r holds exactly the values of data line l
SameFields(r, l) ==
    /\ r.timestamp = l.datetime.t
    /\ val(r.water_level_astro) = l.water_level_astro.milli
    /\ val(r.water_level_meteo) = l.water_level_meteo.milli
    /\ val(r.surge) = l.surge.milli
    /\ val(r.depth_averaged_velocity) = l.depth_averaged_velocity.milli
    /\ val(r.current_direction) = l.current_direction.milli

\* series s is the exact draft series of rows sel for elevation lat
ExactSeries(s, sel, lat) ==
    /\ Len(s) = Len(sel)
    /\ \A j \in 1 .. Len(sel) :
          /\ s[j].timestamp = sel[j].timestamp
          /\ s[j].astro = Drafts(sel[j], lat).astro
          /\ s[j].astro_surge = Drafts(sel[j], lat).astroSurge
          /\ s[j].meteo = Drafts(sel[j], lat).meteo
          /\ s[j].meteo_surge = Drafts(sel[j], lat).meteoSurge

\* table entry e is the exact / the rounded draft result of row r for elevation lat
ExactEntry(e, r, lat) ==
    /\ e.tide_astro = Drafts(r, lat).astro
    /\ e.tide_astro_surge = Drafts(r, lat).astroSurge
    /\ e.tide_meteo = Drafts(r, lat).meteo
    /\ e.tide_meteo_surge = Drafts(r, lat).meteoSurge

RoundedEntry(e, r, lat) ==
    /\ Rounded(e.tide_astro, Drafts(r, lat).astro)
    /\ Rounded(e.tide_astro_surge, Drafts(r, lat).astroSurge)
    /\ Rounded(e.tide_meteo, Drafts(r, lat).meteo)
    /\ Rounded(e.tide_meteo_surge, Drafts(r, lat).meteoSurge)

----------------------------------------------------------------------------
(* C1 *)

\* C1 as stated: the draft table of the selected timestamp and every sample of
\* the range series hold exactly the four drafts of section 3.
\* Violated: the table holds the drafts rounded to two decimals.
C1_TableAndSeriesExact ==
    /\ results # <<>> =>
          \A i \in 1 .. 3 : ExactEntry(results[i], row[1], elev[i])
    /\ charts # <<>> =>
          \A i \in 1 .. 3 :
             ExactSeries(charts[i], Between(df, time_range[1], time_range[2]), elev[i])

\* C1 amended: every sample of the range series holds exactly the four drafts
\* of section 3; the draft table holds each of them rounded to two decimals
\* (hence the same values when sample and elevation have at most two
\* decimals); the sample (2.00, 2.10, 0.10) with elevation -1.40 gives
\* 3.40, 3.50, 3.50, 3.60 in the table.
C1_SeriesExactTableRounded ==
    /\ charts # <<>> =>
          \A i \in 1 .. 3 :
             ExactSeries(charts[i], Between(df, time_range[1], time_range[2]), elev[i])
    /\ results # <<>> =>
          \A i \in 1 .. 3 :
             /\ RoundedEntry(results[i], row[1], elev[i])
             /\ (/\ TwoDecimals(val(row[1].water_level_astro))
                 /\ TwoDecimals(val(row[1].water_level_meteo))
                 /\ TwoDecimals(val(row[1].surge))
                 /\ TwoDecimals(elev[i])) => ExactEntry(results[i], row[1], elev[i])
             /\ (/\ val(row[1].water_level_astro) = 2000
                 /\ val(row[1].water_level_meteo) = 2100
                 /\ val(row[1].surge) = 100
                 /\ elev[i] = -1400) =>
                   /\ results[i].tide_astro = 3400
                   /\ results[i].tide_astro_surge = 3500
                   /\ results[i].tide_meteo = 3500
                   /\ results[i].tide_meteo_surge = 3600

\* the table of the scenario sample next to a series with a three-decimal draft
C1_Witness ==
    /\ results # <<>> /\ charts # <<>>
    /\ val(row[1].water_level_astro) = 2000 /\ elev[1] = -1400
    /\ results[1].tide_astro = 3400 /\ results[1].tide_meteo_surge = 3600
    /\ \E j \in 1 .. Len(charts[1]) : charts[1][j].astro = 3404

----------------------------------------------------------------------------
(* C2 *)

\* C2 as stated: in the draft table and in the range series,
\* astroSurge - astro = meteoSurge - meteo = surge.
\* Violated: the table's values are rounded one by one.
C2_SurgeDifferenceExact ==
    /\ results # <<>> =>
          \A i \in 1 .. 3 :
             /\ results[i].tide_astro_surge - results[i].tide_astro = val(row[1].surge)
             /\ results[i].tide_meteo_surge - results[i].tide_meteo = val(row[1].surge)
    /\ charts # <<>> =>
          \A i \in 1 .. 3 : \A j \in 1 .. Len(charts[i]) :
             /\ charts[i][j].astro_surge - charts[i][j].astro
                   = charts[i][j].meteo_surge - charts[i][j].meteo

\* C2 amended: in the range series astroSurge - astro = meteoSurge - meteo =
\* surge; in the draft table, whose values are rounded to two decimals, both
\* differences are within 0.01 of surge, and equal to it when sample and
\* elevation have at most two decimals.
C2_SurgeDifference ==
    /\ charts # <<>> =>
          LET sel == Between(df, time_range[1], time_range[2])
          IN \A i \in 1 .. 3 :
                /\ Len(charts[i]) = Len(sel)
                /\ \A j \in 1 .. Len(sel) :
                      /\ charts[i][j].astro_surge - charts[i][j].astro = val(sel[j].surge)
                      /\ charts[i][j].meteo_surge - charts[i][j].meteo = val(sel[j].surge)
    /\ results # <<>> =>
          \A i \in 1 .. 3 :
             LET da == results[i].tide_astro_surge - results[i].tide_astro
                 dm == results[i].tide_meteo_surge - results[i].tide_meteo
                 surge == val(row[1].surge)
             IN /\ Abs(da - surge) <= 10
                /\ Abs(dm - surge) <= 10
                /\ (/\ TwoDecimals(val(row[1].water_level_astro))
                    /\ TwoDecimals(val(row[1].water_level_meteo))
                    /\ TwoDecimals(surge)
                    /\ TwoDecimals(elev[i])) => da = surge /\ dm = surge

\* a table whose rounded values differ by another amount than the surge, next
\* to a series
C2_Witness ==
    /\ results # <<>> /\ charts # <<>> /\ charts[1] # <<>>
    /\ results[1].tide_astro_surge - results[1].tide_astro # val(row[1].surge)

----------------------------------------------------------------------------
(* C3 *)

\* C3: for start <= end the selected range holds exactly the rows with
\* start <= timestamp <= end, in their order in the series and nothing else;
\* it is empty when start and end are both below the first timestamp, and the
\* whole series when start and end are its least and greatest timestamp.
C3_SelectRange ==
    (charts # <<>> /\ time_range[1] <= time_range[2]) =>
       LET sel == Between(df, time_range[1], time_range[2])
       IN \A i \in 1 .. 3 :
             /\ Len(charts[i]) = Len(sel)
             /\ \A j \in 1 .. Len(sel) :
                   /\ charts[i][j].timestamp = sel[j].timestamp
                   /\ charts[i][j].astro + elev[i] = val(sel[j].water_level_astro)
                   /\ charts[i][j].meteo + elev[i] = val(sel[j].water_level_meteo)
             /\ (df # <<>> /\ time_range[2] < start_time(df)) => charts[i] = <<>>
             /\ (df # <<>> /\ time_range = <<start_time(df), end_time(df)>>) =>
                   /\ Len(charts[i]) = Len(df)
                   /\ \A j \in 1 .. Len(df) : charts[i][j].timestamp = df[j].timestamp

\* a range that keeps some rows of the series and drops others
C3_Witness ==
    /\ charts # <<>> /\ time_range[1] <= time_range[2]
    /\ Len(charts[1]) > 0 /\ Len(charts[1]) < Len(df)

----------------------------------------------------------------------------
(* C4 *)

----------------------------------------------------------------------------
(* C5 *)

\* a lookup was made: it gave a row or raised
looked_up == row # <<>> \/ error # "none"
present(ts) == \E k \in 1 .. Len(df) : df[k].timestamp = ts

----------------------------------------------------------------------------
(* C6 *)

\* C6 as stated: the lookup at the timestamp of any data line returns the
\* values of that line, also when two lines have the same timestamp.
\* Violated: of two lines with one timestamp the second is never returned.
C6_RoundTripEveryRow ==
    looked_up =>
       \A k \in 1 .. Len(data_lines) :
          data_lines[k].datetime.t = selected_timestamp =>
             row # <<>> /\ SameFields(row[1], data_lines[k])

\* C6 amended: the lookup at the timestamp of a data line returns the values
\* of the first line of the file with that timestamp; hence of every line
\* when no two lines have the same timestamp.
C6_RoundTripFirstRow ==
    looked_up =>
       \A k \in 1 .. Len(data_lines) :
          (/\ data_lines[k].datetime.t = selected_timestamp
           /\ \A h \in 1 .. k - 1 : data_lines[h].datetime.t # selected_timestamp) =>
             row # <<>> /\ SameFields(row[1], data_lines[k])

\* the lookup at a timestamp that two lines with different readings share
C6_Witness ==
    /\ row # <<>>
    /\ Len(data_lines) >= 2
    /\ data_lines[1].datetime.t = selected_timestamp
    /\ data_lines[2].datetime.t = selected_timestamp
    /\ data_lines[1].water_level_astro # data_lines[2].water_level_astro
    /\ SameFields(row[1], data_lines[1])

----------------------------------------------------------------------------
(* C7 *)

\* a data line whose datetime is not in the format, or with a field that is
\* no number
malformed(l) ==
    \/ l.datetime.fmt # format
    \/ \E c \in column_names : ~l[c].num

\* C7: a run on a file with a malformed data line ends in an error while the
\* file is read (lines 26-34), without a series.
\* Violated: a field that is no number is read as text and the run goes on.
C7_MalformedRowRejected ==
    (uploaded_file # <<>> /\ \E k \in 1 .. Len(data_lines) : malformed(data_lines[k])) =>
       /\ error # "none"
       /\ stopped_at <= 34
       /\ df = <<>>

----------------------------------------------------------------------------
(* C8 *)

\* C8: a run on a file without data lines ends in an error while the file is
\* read (lines 26-34), so that no later line runs on the empty series.
\* Violated: the empty frame is built and the run goes on to the widgets.
C8_EmptyInputRejected ==
    (uploaded_file # <<>> /\ data_lines = <<>>) =>
       /\ error # "none"
       /\ stopped_at <= 34

----------------------------------------------------------------------------
(* C9 *)

\* C9: after any sequence of interactions, what is shown is computed from the
\* file, the selection, the range and the elevations as they are now: the
\* frame is the uploaded file's, the row is the one at the selected
\* timestamp, the draft table is that row's for the current elevations and
\* the draft series are those of the current range for the current
\* elevations; a run that raised shows no draft table and no draft series,
\* and without a file nothing is shown.
C9_ShownIsCurrent ==
    /\ uploaded_file = <<>> =>
          /\ df = <<>> /\ row = <<>> /\ pred_df = <<>> /\ results = <<>> /\ charts = <<>>
          /\ stopped_at = 157
    /\ (uploaded_file # <<>> /\ error # "none") => results = <<>> /\ charts = <<>>
    /\ (uploaded_file # <<>> /\ error = "none") =>
          /\ stopped_at = 154
          /\ Len(df) = Len(data_lines)
          /\ \A k \in 1 .. Len(df) : SameFields(df[k], data_lines[k])
          /\ selected_date # <<>> /\ selected_time # <<>> /\ time_range # <<>>
          /\ row # <<>>
          /\ \E k \in 1 .. Len(df) :
                /\ df[k] = row[1]
                /\ df[k].timestamp = selected_timestamp
                /\ \A h \in 1 .. k - 1 : df[h].timestamp # selected_timestamp
          /\ pred_df # <<>> /\ pred_df[1].Hora = selected_timestamp
          /\ Len(results) = 3 /\ Len(charts) = 3
          /\ \A i \in 1 .. 3 :
                /\ results[i].Punto = names[i]
                /\ RoundedEntry(results[i], row[1], elev[i])
                /\ ExactSeries(charts[i], Between(df, time_range[1], time_range[2]), elev[i])

\* a completed run after the date, the range and an elevation were changed
C9_Witness ==
    /\ error = "none" /\ results # <<>>
    /\ elev # default_elev
    /\ selected_date # <<date(df[1].timestamp)>>
    /\ time_range # <<start_time(df), default_end(df)>>

----------------------------------------------------------------------------
(* C10 *)

\* C10: while a series with at least one row is loaded, the selected date and
\* hour combine to the timestamp of a sample of the series, and the lookup of
\* line 75 finds a row.
C10_SelectionExists ==
    (uploaded_file # <<>> /\ Len(df) >= 1) =>
       /\ selected_date # <<>> /\ selected_time # <<>>
       /\ present(selected_timestamp)
       /\ error # "IndexError"
       /\ row # <<>> /\ row[1].timestamp = selected_timestamp

\* the second date is selected and its hours are not those of the first date
C10_Witness ==
    /\ row # <<>> /\ Len(unique_dates(df)) >= 2
    /\ selected_date = <<unique_dates(df)[2]>>
    /\ available_hours(df, selected_date) # available_hours(df, <<unique_dates(df)[1]>>)

====
